---- MODULE Spec2Model ----
(***************************************************************************)
(* Model of the LRU cache of src/lru.go: a hash table (items) pointing     *)
(* into a container/list doubly-linked list (queue), an optional TTL with  *)
(* a background sweeper goroutine, and the callers of Set, Get and Clear.  *)
(*                                                                         *)
(* The list is modelled at pointer level (root sentinel, next, prev, the   *)
(* element's list back-pointer, len), as container/list implements it,     *)
(* because Clear touches it without the mutex.                             *)
(***************************************************************************)
EXTENDS Integers, Sequences, FiniteSets, TLC

\* ---------------------------------------------------------------- bounds
MaxCap == 2
MaxVal == 2
MaxOps == 4
MaxCalls == 3
MaxTime == 8
NumProcs == 2
\* the (ttl, ticks) pair handed to WithTTL
TTL == 4
Ticks == 2
\* the arguments of New that are tried: up to MaxOpts options, ttl up to MaxTtl,
\* ticks up to MaxTicks
MaxOpts == 2
MaxTtl == 3
MaxTicks == 3

Key == 1..(MaxCap + 1)
Values == 1..MaxVal
Node == 1..MaxOps
Procs == 1..NumProcs

\* ------------------------------------------------------ program constants
\* &l.queue.root, the list's sentinel element
Root == 0
\* a nil *list.Element
Nil == -1
\* the zero time.Time a listItem is built with
ZeroTime == 0
\* a nil `any`
NoValue == 0
\* no key (ghost records only)
NoKey == 0
\* a nil Element.Value
NoItem == [key |-> NoKey, value |-> NoValue, expiresAt |-> ZeroTime]

Elem == Node \cup {Root}

VARIABLES
    l,          \* the *LRUCache: cap, ttl, cancel, items, and the queue's heap
    now,        \* the wall clock
    mu,         \* l.mu: 0 when free, else the holder
    pc,         \* each caller's position
    frame,      \* each caller's locals: key, value, newItem, node
    pcS,        \* the sweeper goroutine's position
    nodeS,      \* the sweeper's locals: node, delNode
    tickReady,  \* a tick is buffered in ticker.C
    nextTick,   \* when the ticker fires next
    cancelled,  \* ctx.Done() is closed
    ops,        \* calls started so far (bounds the run)
    recency,    \* ghost: keys by most recent touch, most recent first
    lastSet,    \* ghost: the value of the most recent Set of each key
    touchAt,    \* ghost: when the most recent touch of each key took effect
    cleared,    \* ghost: a Clear has returned
    last,       \* ghost: the last completed call and what it returned
    cons,       \* the call of New: its arguments, position, result, goroutines
    revived,    \* ghost: the key a Get found expired and refreshed, and when
    lp,         \* the *LRUCache of lruCache.go, given the same calls as l
    lastP       \* ghost: the last completed call on lp and what it returned

vars == <<l, now, mu, pc, frame, pcS, nodeS, tickReady, nextTick, cancelled,
          ops, recency, lastSet, touchAt, cleared, last, cons, revived,
          lp, lastP>>

\* ------------------------------------------------------- container/list
QueueLen(c) == c.len

Front(c) == IF c.len = 0 THEN Nil ELSE c.next[Root]

BackFront(c) == IF c.len = 0 THEN Nil ELSE c.next[Root]
Back(c) == IF c.len = 0 THEN Nil ELSE c.prev[Root]

PrevNone(c, e) == Nil
Prev(c, e) == IF c.list[e] /\ c.prev[e] # Root THEN c.prev[e] ELSE Nil

ListInit(c) == [c EXCEPT !.next[Root] = Root, !.prev[Root] = Root, !.len = 0]

\* e.prev = at; e.next = at.next; e.prev.next = e; e.next.prev = e; e.list = l; l.len++
insert(c, e, at) ==
    LET c1 == [c EXCEPT !.prev[e] = at, !.next[e] = c.next[at]]
        c2 == [c1 EXCEPT !.next[c1.prev[e]] = e]
        c3 == [c2 EXCEPT !.prev[c2.next[e]] = e]
    IN  [c3 EXCEPT !.list[e] = TRUE, !.len = @ + 1]

\* e.prev.next = e.next; e.next.prev = e.prev; e.next = nil; e.prev = nil; e.list = nil; l.len--
remove(c, e) ==
    LET c1 == [c EXCEPT !.next[c.prev[e]] = c.next[e]]
        c2 == [c1 EXCEPT !.prev[c1.next[e]] = c1.prev[e]]
    IN  [c2 EXCEPT !.next[e] = Nil, !.prev[e] = Nil, !.list[e] = FALSE, !.len = @ - 1]

\* unlink e, then link it after at
move(c, e, at) ==
    IF e = at THEN c
    ELSE LET c1 == [c EXCEPT !.next[c.prev[e]] = c.next[e]]
             c2 == [c1 EXCEPT !.prev[c1.next[e]] = c1.prev[e]]
             c3 == [c2 EXCEPT !.prev[e] = at, !.next[e] = c2.next[at]]
             c4 == [c3 EXCEPT !.next[c3.prev[e]] = e]
         IN  [c4 EXCEPT !.prev[c4.next[e]] = e]

\* the element PushFront allocates
Fresh(c) == CHOOSE n \in Node : c.Value[n] = NoItem /\ \A m \in Node : m < n => c.Value[m] # NoItem

PushFront(c, v) == insert([c EXCEPT !.Value[Fresh(c)] = v], Fresh(c), Root)

MoveToFrontSkip(c, e) == c
MoveToFront(c, e) == IF ~c.list[e] \/ c.next[Root] = e THEN c ELSE move(c, e, Root)

Remove(c, e) == IF c.list[e] THEN remove(c, e) ELSE c

\* ------------------------------------------------------------ the cache
\* the keys of l.items
Present(c) == {k \in Key : c.items[k] # Nil}

ValueOf(c, k) == c.Value[c.items[k]].value

\* New's cache before its options run
EmptyCache(cap) ==
    [cap |-> cap, ttl |-> 0, cancel |-> FALSE,
     items |-> [k \in Key |-> Nil],
     next |-> [e \in Elem |-> IF e = Root THEN Root ELSE Nil],
     prev |-> [e \in Elem |-> IF e = Root THEN Root ELSE Nil],
     list |-> [e \in Elem |-> FALSE],
     Value |-> [e \in Elem |-> NoItem],
     len |-> 0]

\* the part of WithTTL's option that writes the cache
WithTTLNoTtl(c, ttl) == [c EXCEPT !.cancel = TRUE]
WithTTL(c, ttl) == [c EXCEPT !.ttl = ttl, !.cancel = TRUE]

\* Set's listItem, stamped before the mutex is taken
NewItem(c, t, key, value) ==
    [key |-> key, value |-> value,
     expiresAt |-> IF c.ttl > 0 THEN t + c.ttl ELSE ZeroTime]

SetValueKeep(c, node, item) == c
SetValue(c, node, item) == [c EXCEPT !.Value[node] = item]

\* deleteItem dereferences node (queue.Remove) and asserts node.Value.(*listItem)
deleteItemPanics(c, node) == node = Nil \/ c.Value[node] = NoItem

deleteItem(c, node) ==
    LET c1 == Remove(c, node)
    IN  [c1 EXCEPT !.items[c1.Value[node].key] = Nil]

Full(c) == Cardinality(Present(c)) = c.cap

\* Set's critical section: the cache after it, its result, and whether it panics
SetEvictFirst(c, newItem) ==
    LET key == newItem.key
        c0 == IF Full(c) /\ ~deleteItemPanics(c, Back(c)) THEN deleteItem(c, Back(c)) ELSE c
        c1 == PushFront(c0, newItem)
    IN  IF c.items[key] # Nil
        THEN [l |-> MoveToFront(SetValue(c0, c.items[key], newItem), c.items[key]),
              ret |-> TRUE, panic |-> FALSE]
        ELSE [l |-> [c1 EXCEPT !.items[key] = Fresh(c0)], ret |-> FALSE, panic |-> FALSE]
Set(c, newItem) ==
    LET key == newItem.key
        node == c.items[key]
        c0 == IF Full(c) THEN deleteItem(c, Back(c)) ELSE c
        c1 == PushFront(c0, newItem)
    IN  IF node # Nil
        THEN [l |-> MoveToFront(SetValue(c, node, newItem), node), ret |-> TRUE, panic |-> FALSE]
        ELSE IF Full(c) /\ deleteItemPanics(c, Back(c))
        THEN [l |-> c, ret |-> FALSE, panic |-> TRUE]
        ELSE [l |-> [c1 EXCEPT !.items[key] = Fresh(c0)], ret |-> FALSE, panic |-> FALSE]

\* li.expiresAt = time.Now().Add(l.ttl)
StampNone(c, node, t) == c
Stamp(c, node, t) ==
    IF c.ttl > 0 THEN [c EXCEPT !.Value[node].expiresAt = t + c.ttl] ELSE c

Get(c, t, key) ==
    LET node == c.items[key]
    IN  IF node = Nil
        THEN [l |-> c, value |-> NoValue, found |-> FALSE]
        ELSE [l |-> MoveToFront(Stamp(c, node, t), node),
              value |-> c.Value[node].value, found |-> TRUE]

\* clearExpired, line 155: time.Until(expiresAt) > 0 returns; otherwise the node is expired
Expired(c, node, t) == ~(c.Value[node].expiresAt - t > 0)

\* clearExpired's loop from node towards the front
RECURSIVE Sweep(_, _, _)
Sweep(c, node, t) ==
    IF node = Nil \/ ~Expired(c, node, t) THEN c
    ELSE Sweep(deleteItem(c, node), Prev(c, node), t)

\* clearExpired under the mutex, at time t
clearExpiredFromFront(c, t) == IF QueueLen(c) = 0 THEN c ELSE Sweep(c, Front(c), t)
clearExpired(c, t) == IF QueueLen(c) = 0 THEN c ELSE Sweep(c, Back(c), t)

ClearCancel(c) == IF c.cancel THEN [c EXCEPT !.ttl = 0] ELSE c
ClearItems(c) == [c EXCEPT !.items = [k \in Key |-> Nil]]
ClearKeepQueue(c) == ClearItems(ClearCancel(c))
Clear(c) == ListInit(ClearItems(ClearCancel(c)))

\* ------------------------------------------------ the cache of lruCache.go
\* a nil Element.Value; this listItem has no expiresAt
PlainNoItem == [key |-> NoKey, value |-> NoValue]

\* New(cap) of lruCache.go, cap > 0
PlainNew(cap) ==
    [cap |-> cap,
     items |-> [k \in Key |-> Nil],
     next |-> [e \in Elem |-> IF e = Root THEN Root ELSE Nil],
     prev |-> [e \in Elem |-> IF e = Root THEN Root ELSE Nil],
     list |-> [e \in Elem |-> FALSE],
     Value |-> [e \in Elem |-> PlainNoItem],
     len |-> 0]

PlainFresh(c) ==
    CHOOSE n \in Node : c.Value[n] = PlainNoItem /\ \A m \in Node : m < n => c.Value[m] # PlainNoItem

PlainPushFront(c, v) == insert([c EXCEPT !.Value[PlainFresh(c)] = v], PlainFresh(c), Root)

\* lines 46-51: lastNode := Back(); item := lastNode.Value; Remove(lastNode); delete(items, item.key)
PlainEvict(c) ==
    LET lastNode == Back(c)
        c1 == Remove(c, lastNode)
    IN  [c1 EXCEPT !.items[c.Value[lastNode].key] = Nil]

\* Set of lruCache.go: the cache after it, its result, and whether it panics
PlainSet(c, key, value) ==
    LET node == c.items[key]
        c0 == IF Full(c) THEN PlainEvict(c) ELSE c
        c1 == PlainPushFront(c0, [key |-> key, value |-> value])
    IN  IF node # Nil
        THEN [l |-> MoveToFront([c EXCEPT !.Value[node].value = value], node),
              ret |-> TRUE, panic |-> FALSE]
        ELSE IF Full(c) /\ Back(c) = Nil
        THEN [l |-> c, ret |-> FALSE, panic |-> TRUE]
        ELSE [l |-> [c1 EXCEPT !.items[key] = PlainFresh(c0)], ret |-> FALSE, panic |-> FALSE]

\* Get of lruCache.go
PlainGetNoMove(c, key) ==
    LET node == c.items[key]
    IN  IF node = Nil
        THEN [l |-> c, value |-> NoValue, found |-> FALSE]
        ELSE [l |-> c, value |-> c.Value[node].value, found |-> TRUE]
PlainGet(c, key) ==
    LET node == c.items[key]
    IN  IF node = Nil
        THEN [l |-> c, value |-> NoValue, found |-> FALSE]
        ELSE [l |-> MoveToFront(c, node), value |-> c.Value[node].value, found |-> TRUE]

\* Clear of lruCache.go
PlainClear(c) == ListInit([c EXCEPT !.items = [k \in Key |-> Nil]])

\* ------------------------------------------------------------------ time
\* the ticker's period: l.ttl / time.Duration(ticks)
Period == TTL \div Ticks

\* Timing: the sweeper is prompt (the clock does not pass a tick or a cancellation
\* the sweeper has not served yet) and a critical section is short (the clock does
\* not move while the mutex is held). A caller may be delayed for any time outside
\* the mutex.
SweeperIdle == pcS = "done" \/ (pcS = "select" /\ ~tickReady /\ ~cancelled)

AdvanceTime ==
    /\ now < MaxTime
    /\ SweeperIdle
    /\ mu = 0
    /\ now' = now + 1
    /\ IF pcS # "done" /\ now' = nextTick
       THEN tickReady' = TRUE /\ nextTick' = nextTick + Period
       ELSE UNCHANGED <<tickReady, nextTick>>
    /\ UNCHANGED <<lp, lastP, revived, cons, l, mu, pc, frame, pcS, nodeS, cancelled, ops, recency, lastSet,
                   touchAt, cleared, last>>

\* ---------------------------------------------------------------- ghosts
Touch(r, k) == <<k>> \o SelectSeq(r, LAMBDA x : x # k)

NoCall == [op |-> "none", key |-> NoKey, value |-> NoValue, ok |-> FALSE, gone |-> {}]

NoRevival == [key |-> NoKey, at |-> ZeroTime]

NoFrame == [key |-> NoKey, value |-> NoValue, newItem |-> NoItem, node |-> Nil]

\* ------------------------------------------------------- construction
\* the options that are tried: WithTTL(ttl, ticks), valid or not
Opt == [ttl : (-1)..MaxTtl, ticks : 0..MaxTicks]

RECURSIVE SeqsUpTo(_, _)
SeqsUpTo(S, n) ==
    IF n = 0 THEN {<<>>}
    ELSE SeqsUpTo(S, n - 1) \cup {Append(q, x) : q \in {r \in SeqsUpTo(S, n - 1) : Len(r) = n - 1}, x \in S}

\* a call New(cap, opts...) that has not run yet
Calling(cap, opts) ==
    [cap |-> cap, opts |-> opts, i |-> 1, pc |-> "check", err |-> "none", sweepers |-> <<>>]

\* the call of New behind a cache that is in use: it returned the cache
Built(cap, withTTL) ==
    [cap |-> cap, opts |-> IF withTTL THEN <<[ttl |-> TTL, ticks |-> Ticks]>> ELSE <<>>,
     i |-> IF withTTL THEN 2 ELSE 1, pc |-> "done", err |-> "none", sweepers |-> <<>>]

\* New(cap) or New(cap, WithTTL(TTL, Ticks)) at time 1; with sweeper = FALSE the
\* caller cancels the sweeper right away, as the tests of Set and Get do.
Construct(cap, withTTL, sweeper) ==
    /\ l = IF withTTL THEN WithTTL(EmptyCache(cap), TTL) ELSE EmptyCache(cap)
    /\ lp = PlainNew(cap)
    /\ lastP = NoCall
    /\ now = 1
    /\ mu = 0
    /\ pc = [p \in Procs |-> "idle"]
    /\ frame = [p \in Procs |-> NoFrame]
    /\ pcS = IF withTTL /\ sweeper THEN "select" ELSE "done"
    /\ nodeS = [node |-> Nil, delNode |-> Nil]
    /\ tickReady = FALSE
    /\ nextTick = IF withTTL /\ sweeper THEN 1 + Period ELSE 0
    /\ cancelled = (withTTL /\ ~sweeper)
    /\ ops = 0
    /\ recency = <<>>
    /\ lastSet = [k \in Key |-> NoValue]
    /\ touchAt = [k \in Key |-> 0]
    /\ cleared = FALSE
    /\ last = NoCall
    /\ cons = Built(cap, withTTL)
    /\ revived = NoRevival

\* ------------------------------------------------- the steps of New
\* a goroutine started by WithTTL; it has not computed its ticker's period yet
Spawned(ticks) == [ticks |-> ticks, state |-> "spawned", period |-> 0]

\* a sweeper goroutine panicked (time.NewTicker panics on a non-positive period)
SweeperPanicked == \E g \in 1..Len(cons.sweepers) : cons.sweepers[g].state = "panic"

\* New, lines 35-43: the capacity check, then the allocation of the cache
NewCheck ==
    /\ cons.pc = "check"
    /\ IF cons.cap <= 0
       THEN /\ cons' = [cons EXCEPT !.pc = "done", !.err = "cap"]
            /\ UNCHANGED l
       ELSE /\ cons' = [cons EXCEPT !.pc = "options"]
            /\ l' = EmptyCache(cons.cap)
    /\ UNCHANGED <<lp, lastP, revived, now, mu, pc, frame, pcS, nodeS, tickReady, nextTick, cancelled, ops,
                   recency, lastSet, touchAt, cleared, last>>

\* New, lines 45-49 and WithTTL, lines 56-85: the next option is applied; a valid
\* WithTTL writes l.ttl and l.cancel and starts a goroutine
NewOption ==
    /\ cons.pc = "options"
    /\ cons.i <= Len(cons.opts)
    /\ ~SweeperPanicked
    /\ LET o == cons.opts[cons.i]
       IN  IF o.ttl <= 0
           THEN /\ cons' = [cons EXCEPT !.pc = "done", !.err = "ttl"]
                /\ UNCHANGED l
           ELSE IF o.ticks <= 1
           THEN /\ cons' = [cons EXCEPT !.pc = "done", !.err = "ticks"]
                /\ UNCHANGED l
           ELSE /\ cons' = [cons EXCEPT !.i = @ + 1,
                                        !.sweepers = Append(@, Spawned(o.ticks))]
                /\ l' = WithTTL(l, o.ttl)
    /\ UNCHANGED <<lp, lastP, revived, now, mu, pc, frame, pcS, nodeS, tickReady, nextTick, cancelled, ops,
                   recency, lastSet, touchAt, cleared, last>>

\* New, line 50: return lruCache, nil
NewReturn ==
    /\ cons.pc = "options"
    /\ cons.i > Len(cons.opts)
    /\ ~SweeperPanicked
    /\ cons' = [cons EXCEPT !.pc = "done"]
    /\ UNCHANGED <<lp, lastP, revived, l, now, mu, pc, frame, pcS, nodeS, tickReady, nextTick, cancelled, ops,
                   recency, lastSet, touchAt, cleared, last>>

\* WithTTL, line 72, in the goroutine: time.NewTicker(l.ttl / time.Duration(ticks));
\* l.ttl is read when the goroutine runs
GoTicker(g) ==
    /\ g \in 1..Len(cons.sweepers)
    /\ cons.sweepers[g].state = "spawned"
    /\ ~SweeperPanicked
    /\ LET period == l.ttl \div cons.sweepers[g].ticks
       IN  cons' = [cons EXCEPT !.sweepers[g] =
                        [@ EXCEPT !.state = IF period <= 0 THEN "panic" ELSE "running",
                                  !.period = period]]
    /\ UNCHANGED <<lp, lastP, revived, l, now, mu, pc, frame, pcS, nodeS, tickReady, nextTick, cancelled, ops,
                   recency, lastSet, touchAt, cleared, last>>

\* every call New(cap, opts...) with cap up to MaxCap and up to MaxOpts options
InitNew ==
    /\ \E cap \in (-1)..MaxCap, opts \in SeqsUpTo(Opt, MaxOpts) : cons = Calling(cap, opts)
    /\ l = EmptyCache(0)
    /\ lp = PlainNew(0)
    /\ lastP = NoCall
    /\ now = 1
    /\ mu = 0
    /\ pc = [p \in Procs |-> "idle"]
    /\ frame = [p \in Procs |-> NoFrame]
    /\ pcS = "done"
    /\ nodeS = [node |-> Nil, delNode |-> Nil]
    /\ tickReady = FALSE
    /\ nextTick = 0
    /\ cancelled = FALSE
    /\ ops = 0
    /\ recency = <<>>
    /\ lastSet = [k \in Key |-> NoValue]
    /\ touchAt = [k \in Key |-> 0]
    /\ cleared = FALSE
    /\ last = NoCall
    /\ revived = NoRevival

NextNew ==
    \/ NewCheck
    \/ NewOption
    \/ NewReturn
    \/ \E g \in 1..MaxOpts : GoTicker(g)

SpecNew == InitNew /\ [][NextNew]_vars

\* ------------------------------------------- sequential calls (one caller)
InitSeq == \E cap \in 1..MaxCap, withTTL \in BOOLEAN : Construct(cap, withTTL, FALSE)

SeqSet(k, v) ==
    LET r == Set(l, NewItem(l, now, k, v))
    IN  /\ ops < MaxOps
        /\ ~r.panic
        /\ l' = r.l
        /\ ops' = ops + 1
        /\ recency' = Touch(recency, k)
        /\ lastSet' = [lastSet EXCEPT ![k] = v]
        /\ touchAt' = [touchAt EXCEPT ![k] = now]
        /\ last' = [op |-> "Set", key |-> k, value |-> v, ok |-> r.ret,
                    gone |-> Present(l) \ Present(r.l)]
        /\ UNCHANGED <<lp, lastP, revived, cons, now, mu, pc, frame, pcS, nodeS, tickReady, nextTick, cancelled, cleared>>

SeqGet(k) ==
    LET r == Get(l, now, k)
    IN  /\ ops < MaxOps
        /\ l' = r.l
        /\ ops' = ops + 1
        /\ recency' = IF r.found THEN Touch(recency, k) ELSE recency
        /\ touchAt' = IF r.found THEN [touchAt EXCEPT ![k] = now] ELSE touchAt
        /\ last' = [op |-> "Get", key |-> k, value |-> r.value, ok |-> r.found,
                    gone |-> Present(l) \ Present(r.l)]
        /\ UNCHANGED <<lp, lastP, revived, cons, now, mu, pc, frame, pcS, nodeS, tickReady, nextTick, cancelled,
                       lastSet, cleared>>

SeqClear ==
    /\ ops < MaxOps
    /\ l' = Clear(l)
    /\ cancelled' = (cancelled \/ l.cancel)
    /\ ops' = ops + 1
    /\ cleared' = TRUE
    /\ last' = [op |-> "Clear", key |-> NoKey, value |-> NoValue, ok |-> FALSE,
                gone |-> Present(l) \ Present(Clear(l))]
    /\ UNCHANGED <<lp, lastP, revived, cons, now, mu, pc, frame, pcS, nodeS, tickReady, nextTick, recency,
                   lastSet, touchAt>>

NextSeq ==
    \/ \E k \in Key, v \in Values : SeqSet(k, v)
    \/ \E k \in Key : SeqGet(k)
    \/ SeqClear

SpecSeq == InitSeq /\ [][NextSeq]_vars

\* ------------------------------------------------ concurrent callers
\* Each step touches one of the shared objects (the map, the list, ttl and cancel),
\* so that a Clear, which takes no lock, interleaves with the statements of the rest.
SweeperId == NumProcs + 1

Panicked == pcS = "panic" \/ \E p \in Procs : pc[p] = "panic"

\* Set, lines 93-96: the listItem is built and stamped before the lock
SetStamp(p, k, v) ==
    /\ pc[p] = "idle"
    /\ ops < MaxOps
    /\ ops' = ops + 1
    /\ frame' = [frame EXCEPT ![p] = [key |-> k, value |-> v,
                                      newItem |-> NewItem(l, now, k, v), node |-> Nil]]
    /\ pc' = [pc EXCEPT ![p] = "set_lookup"]
    /\ UNCHANGED <<lp, lastP, revived, cons, l, now, mu, pcS, nodeS, tickReady, nextTick, cancelled, recency,
                   lastSet, touchAt, cleared, last>>

\* Set, lines 98-101: l.mu.Lock(); node, exist := l.items[key]
SetLookup(p) ==
    /\ pc[p] = "set_lookup"
    /\ mu = 0
    /\ mu' = p
    /\ frame' = [frame EXCEPT ![p].node = l.items[frame[p].key]]
    /\ pc' = [pc EXCEPT ![p] = IF l.items[frame[p].key] # Nil THEN "set_update" ELSE "set_full"]
    /\ UNCHANGED <<lp, lastP, revived, cons, l, now, pcS, nodeS, tickReady, nextTick, cancelled, ops, recency,
                   lastSet, touchAt, cleared, last>>

\* Set, lines 102-104: node.Value = newItem; MoveToFront(node); return true
SetUpdate(p) ==
    /\ pc[p] = "set_update"
    /\ l' = MoveToFront(SetValue(l, frame[p].node, frame[p].newItem), frame[p].node)
    /\ mu' = 0
    /\ pc' = [pc EXCEPT ![p] = "idle"]
    /\ frame' = [frame EXCEPT ![p] = NoFrame]
    /\ UNCHANGED <<lp, lastP, revived, cons, now, pcS, nodeS, tickReady, nextTick, cancelled, ops, recency,
                   lastSet, touchAt, cleared, last>>

\* Set, line 107: len(l.items) == l.cap
SetFull(p) ==
    /\ pc[p] = "set_full"
    /\ pc' = [pc EXCEPT ![p] = IF Full(l) THEN "set_evict" ELSE "set_push"]
    /\ UNCHANGED <<lp, lastP, revived, cons, l, now, mu, frame, pcS, nodeS, tickReady, nextTick, cancelled, ops,
                   recency, lastSet, touchAt, cleared, last>>

\* Set, line 108 and deleteItem, lines 168-169: queue.Back(), queue.Remove(node),
\* node.Value.(*listItem); a nil node or a nil Value panics
SetEvict(p) ==
    /\ pc[p] = "set_evict"
    /\ IF deleteItemPanics(l, Back(l))
       THEN /\ pc' = [pc EXCEPT ![p] = "panic"]
            /\ mu' = 0
            /\ UNCHANGED <<l, frame>>
       ELSE /\ l' = Remove(l, Back(l))
            /\ frame' = [frame EXCEPT ![p].node = Back(l)]
            /\ pc' = [pc EXCEPT ![p] = "set_delete"]
            /\ UNCHANGED mu
    /\ UNCHANGED <<lp, lastP, revived, cons, now, pcS, nodeS, tickReady, nextTick, cancelled, ops, recency,
                   lastSet, touchAt, cleared, last>>

\* deleteItem, line 170: delete(l.items, item.key)
SetDelete(p) ==
    /\ pc[p] = "set_delete"
    /\ l' = [l EXCEPT !.items[l.Value[frame[p].node].key] = Nil]
    /\ pc' = [pc EXCEPT ![p] = "set_push"]
    /\ UNCHANGED <<lp, lastP, revived, cons, now, mu, frame, pcS, nodeS, tickReady, nextTick, cancelled, ops,
                   recency, lastSet, touchAt, cleared, last>>

\* Set, line 111, right-hand side: l.queue.PushFront(newItem)
SetPush(p) ==
    /\ pc[p] = "set_push"
    /\ l' = PushFront(l, frame[p].newItem)
    /\ frame' = [frame EXCEPT ![p].node = Fresh(l)]
    /\ pc' = [pc EXCEPT ![p] = "set_store"]
    /\ UNCHANGED <<lp, lastP, revived, cons, now, mu, pcS, nodeS, tickReady, nextTick, cancelled, ops, recency,
                   lastSet, touchAt, cleared, last>>

\* Set, lines 111-112: l.items[key] = ...; return false
SetStore(p) ==
    /\ pc[p] = "set_store"
    /\ l' = [l EXCEPT !.items[frame[p].key] = frame[p].node]
    /\ mu' = 0
    /\ pc' = [pc EXCEPT ![p] = "idle"]
    /\ frame' = [frame EXCEPT ![p] = NoFrame]
    /\ UNCHANGED <<lp, lastP, revived, cons, now, pcS, nodeS, tickReady, nextTick, cancelled, ops, recency,
                   lastSet, touchAt, cleared, last>>

\* Get, lines 118-124: l.mu.Lock(); node, exist := l.items[key]; a miss returns
GetLookup(p, k) ==
    /\ pc[p] = "idle"
    /\ ops < MaxOps
    /\ mu = 0
    /\ ops' = ops + 1
    /\ IF l.items[k] = Nil
       THEN UNCHANGED <<mu, pc, frame>>
       ELSE /\ mu' = p
            /\ frame' = [frame EXCEPT ![p] = [key |-> k, value |-> NoValue,
                                              newItem |-> NoItem, node |-> l.items[k]]]
            /\ pc' = [pc EXCEPT ![p] = "get_touch"]
    /\ UNCHANGED <<lp, lastP, revived, cons, l, now, pcS, nodeS, tickReady, nextTick, cancelled, recency, lastSet,
                   touchAt, cleared, last>>

\* Get, lines 126-129: if l.ttl > 0 { li.expiresAt = time.Now().Add(l.ttl) }
GetTouch(p) ==
    /\ pc[p] = "get_touch"
    /\ l' = Stamp(l, frame[p].node, now)
    /\ pc' = [pc EXCEPT ![p] = "get_move"]
    /\ UNCHANGED <<lp, lastP, revived, cons, now, mu, frame, pcS, nodeS, tickReady, nextTick, cancelled, ops,
                   recency, lastSet, touchAt, cleared, last>>

\* Get, lines 130-131: MoveToFront(node); return li.value, true
GetMove(p) ==
    /\ pc[p] = "get_move"
    /\ l' = MoveToFront(l, frame[p].node)
    /\ mu' = 0
    /\ pc' = [pc EXCEPT ![p] = "idle"]
    /\ frame' = [frame EXCEPT ![p] = NoFrame]
    /\ UNCHANGED <<lp, lastP, revived, cons, now, pcS, nodeS, tickReady, nextTick, cancelled, ops, recency,
                   lastSet, touchAt, cleared, last>>

\* Clear, lines 136-139, without the mutex: l.cancel(); l.ttl = 0
ClearStart(p) ==
    /\ pc[p] = "idle"
    /\ ops < MaxOps
    /\ ops' = ops + 1
    /\ l' = ClearCancel(l)
    /\ cancelled' = (cancelled \/ l.cancel)
    /\ pc' = [pc EXCEPT ![p] = "clear_items"]
    /\ UNCHANGED <<lp, lastP, revived, cons, now, mu, frame, pcS, nodeS, tickReady, nextTick, recency, lastSet,
                   touchAt, cleared, last>>

\* Clear, line 141: clear(l.items)
ClearMap(p) ==
    /\ pc[p] = "clear_items"
    /\ l' = ClearItems(l)
    /\ pc' = [pc EXCEPT ![p] = "clear_queue"]
    /\ UNCHANGED <<lp, lastP, revived, cons, now, mu, frame, pcS, nodeS, tickReady, nextTick, cancelled, ops,
                   recency, lastSet, touchAt, cleared, last>>

\* Clear, line 142: l.queue.Init(); Clear returns
ClearQueue(p) ==
    /\ pc[p] = "clear_queue"
    /\ l' = ListInit(l)
    /\ pc' = [pc EXCEPT ![p] = "idle"]
    /\ cleared' = TRUE
    /\ UNCHANGED <<lp, lastP, revived, cons, now, mu, frame, pcS, nodeS, tickReady, nextTick, cancelled, ops,
                   recency, lastSet, touchAt, last>>

\* a sweeper whose ctx.Done case leaves the select but not the for loop
SweeperExitBreak ==
    /\ pcS = "select"
    /\ cancelled
    /\ pcS' = "select"
    /\ UNCHANGED <<lp, lastP, revived, cons, l, now, mu, pc, frame, nodeS, tickReady, nextTick, cancelled, ops,
                   recency, lastSet, touchAt, cleared, last>>

\* ------------------------------------------------------------ the sweeper
\* WithTTL, lines 76-78: case <-ctx.Done(): return
SweeperExit ==
    /\ pcS = "select"
    /\ cancelled
    /\ pcS' = "done"
    /\ UNCHANGED <<lp, lastP, revived, cons, l, now, mu, pc, frame, nodeS, tickReady, nextTick, cancelled, ops,
                   recency, lastSet, touchAt, cleared, last>>

\* WithTTL, lines 79-80: case <-ticker.C: l.cf(l); select takes either ready case
SweeperTick ==
    /\ pcS = "select"
    /\ tickReady
    /\ tickReady' = FALSE
    /\ pcS' = "cf"
    /\ UNCHANGED <<lp, lastP, revived, cons, l, now, mu, pc, frame, nodeS, nextTick, cancelled, ops, recency,
                   lastSet, touchAt, cleared, last>>

\* clearExpired, lines 147-154: l.mu.Lock(); if l.queue.Len() == 0 return; node := Back()
CfLock ==
    /\ pcS = "cf"
    /\ mu = 0
    /\ IF QueueLen(l) = 0
       THEN /\ pcS' = "select"
            /\ UNCHANGED <<mu, nodeS>>
       ELSE /\ mu' = SweeperId
            /\ nodeS' = [node |-> Back(l), delNode |-> Nil]
            /\ pcS' = "loop"
    /\ UNCHANGED <<lp, lastP, revived, cons, l, now, pc, frame, tickReady, nextTick, cancelled, ops, recency,
                   lastSet, touchAt, cleared, last>>

\* clearExpired, lines 154-161 and deleteItem, lines 168-169: the loop test, the
\* expiry test, node.Prev(), queue.Remove(delNode)
CfLoop ==
    /\ pcS = "loop"
    /\ IF nodeS.node = Nil
       THEN /\ pcS' = "select"
            /\ mu' = 0
            /\ UNCHANGED <<l, nodeS>>
       ELSE IF l.Value[nodeS.node] = NoItem
       THEN /\ pcS' = "panic"
            /\ mu' = 0
            /\ UNCHANGED <<l, nodeS>>
       ELSE IF ~Expired(l, nodeS.node, now)
       THEN /\ pcS' = "select"
            /\ mu' = 0
            /\ UNCHANGED <<l, nodeS>>
       ELSE /\ nodeS' = [node |-> Prev(l, nodeS.node), delNode |-> nodeS.node]
            /\ l' = Remove(l, nodeS.node)
            /\ pcS' = "delete"
            /\ UNCHANGED mu
    /\ UNCHANGED <<lp, lastP, revived, cons, now, pc, frame, tickReady, nextTick, cancelled, ops, recency, lastSet,
                   touchAt, cleared, last>>

\* deleteItem, line 170: delete(l.items, item.key)
CfDelete ==
    /\ pcS = "delete"
    /\ l' = [l EXCEPT !.items[l.Value[nodeS.delNode].key] = Nil]
    /\ pcS' = "loop"
    /\ UNCHANGED <<lp, lastP, revived, cons, now, mu, pc, frame, nodeS, tickReady, nextTick, cancelled, ops,
                   recency, lastSet, touchAt, cleared, last>>

\* a cache without TTL used by concurrent callers, statement by statement
Init == \E cap \in 1..MaxCap : Construct(cap, FALSE, FALSE)

\* a panic ends the program
Next ==
    \/ \E p \in Procs, k \in Key : ~Panicked /\ SetStamp(p, k, MaxVal)
    \/ \E p \in Procs : ~Panicked /\ SetLookup(p)
    \/ \E p \in Procs : ~Panicked /\ SetUpdate(p)
    \/ \E p \in Procs : ~Panicked /\ SetFull(p)
    \/ \E p \in Procs : ~Panicked /\ SetEvict(p)
    \/ \E p \in Procs : ~Panicked /\ SetDelete(p)
    \/ \E p \in Procs : ~Panicked /\ SetPush(p)
    \/ \E p \in Procs : ~Panicked /\ SetStore(p)
    \/ \E p \in Procs, k \in Key : ~Panicked /\ GetLookup(p, k)
    \/ \E p \in Procs : ~Panicked /\ GetTouch(p)
    \/ \E p \in Procs : ~Panicked /\ GetMove(p)
    \/ \E p \in Procs : ~Panicked /\ ClearStart(p)
    \/ \E p \in Procs : ~Panicked /\ ClearMap(p)
    \/ \E p \in Procs : ~Panicked /\ ClearQueue(p)

Spec == Init /\ [][Next]_vars

\* ------------------------------------- Set, Get and the sweeper under TTL
\* Without Clear every access to the cache is made under l.mu, so a critical section
\* is one step: Set is its stamp (outside the mutex) and then its critical section.
Touched(c, t, k) == [j \in Key |-> IF j \notin Present(c) THEN 0
                                   ELSE IF j = k THEN t ELSE touchAt[j]]

\* Set, lines 98-112
SetCommit(p) ==
    LET r == Set(l, frame[p].newItem)
    IN  /\ pc[p] = "set_lookup"
        /\ mu = 0
        /\ ~r.panic
        /\ l' = r.l
        /\ touchAt' = Touched(r.l, now, frame[p].key)
        /\ last' = NoCall
        /\ revived' = IF revived.key \in Present(r.l) \ {frame[p].key} THEN revived
                      ELSE NoRevival
        /\ pc' = [pc EXCEPT ![p] = "idle"]
        /\ frame' = [frame EXCEPT ![p] = NoFrame]
        /\ UNCHANGED <<lp, lastP, cons, now, mu, pcS, nodeS, tickReady, nextTick, cancelled, ops, recency,
                       lastSet, cleared>>

\* Get, lines 117-132
GetCall(p, k) ==
    LET r == Get(l, now, k)
    IN  /\ pc[p] = "idle"
        /\ ops < MaxOps
        /\ mu = 0
        /\ ops' = ops + 1
        /\ l' = r.l
        /\ touchAt' = IF r.found THEN Touched(r.l, now, k) ELSE touchAt
        /\ last' = NoCall
        /\ revived' = IF r.found /\ Expired(l, l.items[k], now) THEN [key |-> k, at |-> now]
                      ELSE IF r.found /\ revived.key = k THEN NoRevival
                      ELSE revived
        /\ UNCHANGED <<lp, lastP, cons, now, mu, pc, frame, pcS, nodeS, tickReady, nextTick, cancelled,
                       recency, lastSet, cleared>>

\* WithTTL, lines 79-80 and clearExpired: one tick of the sweeper. Here last records
\* the latest tick until the next call, and touchAt keeps the touch times of the keys
\* the tick removed until then.
Tick ==
    /\ pcS = "select"
    /\ tickReady
    /\ mu = 0
    /\ tickReady' = FALSE
    /\ l' = clearExpired(l, now)
    /\ last' = [NoCall EXCEPT !.op = "tick", !.gone = Present(l) \ Present(clearExpired(l, now))]
    /\ revived' = IF revived.key \in Present(clearExpired(l, now)) THEN revived ELSE NoRevival
    /\ UNCHANGED <<lp, lastP, cons, now, mu, pc, frame, pcS, nodeS, nextTick, cancelled, ops, recency,
                   lastSet, touchAt, cleared>>

\* a cache with TTL, its sweeper running, used by concurrent Set and Get (no Clear);
\* the run is MaxCalls calls long
InitTTL == \E cap \in 1..MaxCap : Construct(cap, TRUE, TRUE)

NextTTL ==
    \/ \E p \in Procs, k \in Key : ops < MaxCalls /\ SetStamp(p, k, MaxVal)
    \/ \E p \in Procs : SetCommit(p)
    \/ \E p \in Procs, k \in Key : ops < MaxCalls /\ GetCall(p, k)
    \/ Tick
    \/ AdvanceTime

SpecTTL == InitTTL /\ [][NextTTL]_vars

\* A cache with TTL, its sweeper running, whose callers Set, Get and Clear, statement
\* by statement; the run is MaxCalls calls long and the clock runs over the first ttl
\* window after construction. Once the sweeper has returned, ttl is 0 and nothing
\* reads the clock, so the clock is left where it is.
NextClear ==
    \/ \E p \in Procs, k \in Key : ~Panicked /\ ops < MaxCalls /\ SetStamp(p, k, MaxVal)
    \/ \E p \in Procs : ~Panicked /\ SetLookup(p)
    \/ \E p \in Procs : ~Panicked /\ SetUpdate(p)
    \/ \E p \in Procs : ~Panicked /\ SetFull(p)
    \/ \E p \in Procs : ~Panicked /\ SetEvict(p)
    \/ \E p \in Procs : ~Panicked /\ SetDelete(p)
    \/ \E p \in Procs : ~Panicked /\ SetPush(p)
    \/ \E p \in Procs : ~Panicked /\ SetStore(p)
    \/ \E p \in Procs, k \in Key : ~Panicked /\ ops < MaxCalls /\ GetLookup(p, k)
    \/ \E p \in Procs : ~Panicked /\ GetTouch(p)
    \/ \E p \in Procs : ~Panicked /\ GetMove(p)
    \/ \E p \in Procs : ~Panicked /\ ops < MaxCalls /\ ClearStart(p)
    \/ \E p \in Procs : ~Panicked /\ ClearMap(p)
    \/ \E p \in Procs : ~Panicked /\ ClearQueue(p)
    \/ ~Panicked /\ SweeperTick
    \/ ~Panicked /\ SweeperExit
    \/ ~Panicked /\ CfLock
    \/ ~Panicked /\ CfLoop
    \/ ~Panicked /\ CfDelete
    \/ ~Panicked /\ pcS # "done" /\ now <= TTL /\ AdvanceTime

SpecClear == InitTTL /\ [][NextClear]_vars

\* ------------------------- the two caches side by side (one caller, no TTL)
\* the same call is made on l, built by New(cap) of lru.go, and on lp
InitBoth == \E cap \in 1..MaxCap : Construct(cap, FALSE, FALSE)

BothSet(k, v) ==
    LET r == Set(l, NewItem(l, now, k, v))
        rp == PlainSet(lp, k, v)
    IN  /\ ops < MaxOps
        /\ ~r.panic /\ ~rp.panic
        /\ l' = r.l
        /\ lp' = rp.l
        /\ ops' = ops + 1
        /\ last' = [op |-> "Set", key |-> k, value |-> v, ok |-> r.ret,
                    gone |-> Present(l) \ Present(r.l)]
        /\ lastP' = [op |-> "Set", key |-> k, value |-> v, ok |-> rp.ret,
                     gone |-> Present(lp) \ Present(rp.l)]
        /\ UNCHANGED <<revived, cons, now, mu, pc, frame, pcS, nodeS, tickReady, nextTick,
                       cancelled, recency, lastSet, touchAt, cleared>>

BothGet(k) ==
    LET r == Get(l, now, k)
        rp == PlainGet(lp, k)
    IN  /\ ops < MaxOps
        /\ l' = r.l
        /\ lp' = rp.l
        /\ ops' = ops + 1
        /\ last' = [op |-> "Get", key |-> k, value |-> r.value, ok |-> r.found,
                    gone |-> Present(l) \ Present(r.l)]
        /\ lastP' = [op |-> "Get", key |-> k, value |-> rp.value, ok |-> rp.found,
                     gone |-> Present(lp) \ Present(rp.l)]
        /\ UNCHANGED <<revived, cons, now, mu, pc, frame, pcS, nodeS, tickReady, nextTick,
                       cancelled, recency, lastSet, touchAt, cleared>>

BothClear ==
    /\ ops < MaxOps
    /\ l' = Clear(l)
    /\ lp' = PlainClear(lp)
    /\ cancelled' = (cancelled \/ l.cancel)
    /\ ops' = ops + 1
    /\ cleared' = TRUE
    /\ last' = [op |-> "Clear", key |-> NoKey, value |-> NoValue, ok |-> FALSE,
                gone |-> Present(l) \ Present(Clear(l))]
    /\ lastP' = [op |-> "Clear", key |-> NoKey, value |-> NoValue, ok |-> FALSE,
                 gone |-> Present(lp) \ Present(PlainClear(lp))]
    /\ UNCHANGED <<revived, cons, now, mu, pc, frame, pcS, nodeS, tickReady, nextTick, recency,
                   lastSet, touchAt>>

\* the clock passes between calls
BothWait ==
    /\ now < MaxTime
    /\ now' = now + 1
    /\ UNCHANGED <<lp, lastP, revived, cons, l, mu, pc, frame, pcS, nodeS, tickReady, nextTick,
                   cancelled, ops, recency, lastSet, touchAt, cleared, last>>

NextBoth ==
    \/ \E k \in Key, v \in Values : BothSet(k, v)
    \/ \E k \in Key : BothGet(k)
    \/ BothClear
    \/ BothWait

SpecBoth == InitBoth /\ [][NextBoth]_vars

\* The run up to the first tick, the tick that can be in flight when Clear is called:
\* the steps of NextClear, the clock stopping at 1 + Period.
NextStop ==
    \/ \E p \in Procs, k \in Key : ~Panicked /\ ops < MaxCalls /\ SetStamp(p, k, MaxVal)
    \/ \E p \in Procs : ~Panicked /\ SetLookup(p)
    \/ \E p \in Procs : ~Panicked /\ SetUpdate(p)
    \/ \E p \in Procs : ~Panicked /\ SetFull(p)
    \/ \E p \in Procs : ~Panicked /\ SetEvict(p)
    \/ \E p \in Procs : ~Panicked /\ SetDelete(p)
    \/ \E p \in Procs : ~Panicked /\ SetPush(p)
    \/ \E p \in Procs : ~Panicked /\ SetStore(p)
    \/ \E p \in Procs, k \in Key : ~Panicked /\ ops < MaxCalls /\ GetLookup(p, k)
    \/ \E p \in Procs : ~Panicked /\ GetTouch(p)
    \/ \E p \in Procs : ~Panicked /\ GetMove(p)
    \/ \E p \in Procs : ~Panicked /\ ops < MaxCalls /\ ClearStart(p)
    \/ \E p \in Procs : ~Panicked /\ ClearMap(p)
    \/ \E p \in Procs : ~Panicked /\ ClearQueue(p)
    \/ ~Panicked /\ SweeperTick
    \/ ~Panicked /\ SweeperExit
    \/ ~Panicked /\ CfLock
    \/ ~Panicked /\ CfLoop
    \/ ~Panicked /\ CfDelete
    \/ ~Panicked /\ pcS # "done" /\ now <= Period /\ AdvanceTime

SpecStop == InitTTL /\ [][NextStop]_vars

\* Scheduling: the sweeper goroutine keeps running (each of its steps that stays
\* enabled is taken) and a caller that holds the mutex runs on until it releases it.
SweeperRuns == WF_vars(~Panicked /\ (SweeperExit \/ CfLock \/ CfLoop \/ CfDelete))

HolderRuns(p) ==
    WF_vars(~Panicked /\ (\/ SetUpdate(p) \/ SetFull(p) \/ SetEvict(p) \/ SetDelete(p)
                          \/ SetPush(p) \/ SetStore(p) \/ GetTouch(p) \/ GetMove(p)))

SpecClearFair == SpecStop /\ SweeperRuns /\ \A p \in Procs : HolderRuns(p)

\* ------------------------------------------------- claims on sequential calls
Pos(r, k) == CHOOSE i \in 1..Len(r) : r[i] = k

\* the key of S whose most recent touch is oldest
Oldest(S, r) == CHOOSE k \in S : \A j \in S : Pos(r, j) <= Pos(r, k)

\* the step is the call recorded in last'
CallStep == ops' = ops + 1

Used == {k \in Key : lastSet[k] # NoValue}

\* C1: a Set of an absent key on a cache holding exactly cap entries removes exactly
\* one entry, the one whose most recent touch (Set or hitting Get) is oldest; every
\* other entry keeps its value, and a Get of the evicted key then returns (nil, false).
C1_EvictsLeastRecentlyTouched ==
    [][ (CallStep /\ last'.op = "Set" /\ last'.key \notin Present(l)
            /\ Cardinality(Present(l)) = l.cap)
        => LET e == Oldest(Present(l), recency)
           IN  /\ last'.gone = {e}
               /\ Present(l') = (Present(l) \ {e}) \cup {last'.key}
               /\ l'.len = l.cap
               /\ \A j \in Present(l) \ {e} : ValueOf(l', j) = ValueOf(l, j)
               /\ Get(l', now', e).found = FALSE
               /\ Get(l', now', e).value = NoValue ]_vars

\* a full cache of MaxCap entries evicted a key after MaxOps calls touching MaxCap + 1 keys
C1_Witness ==
    /\ last.op = "Set" /\ ~last.ok /\ last.gone # {}
    /\ l.cap = MaxCap /\ ops = MaxOps /\ Len(recency) = MaxCap + 1
    /\ last.gone \cap Present(l) = {}

\* C2: while at most cap distinct keys have been Set and no Clear ran, no entry is
\* removed, and Get(k) of every key that was Set returns (v, true), v the value of
\* the most recent Set(k, v).
C2_NoEvictionWithinCapacity ==
    (~cleared /\ Cardinality(Used) <= l.cap)
    => /\ Present(l) = Used
       /\ \A k \in Used : Get(l, now, k).found /\ Get(l, now, k).value = lastSet[k]
       /\ (last.op = "Get" /\ last.key \in Used) => (last.ok /\ last.value = lastSet[last.key])

\* a Get hit on a cache filled to its capacity of MaxCap, after a key was Set twice
C2_Witness ==
    /\ ~cleared /\ Cardinality(Used) = l.cap /\ l.cap = MaxCap
    /\ last.op = "Get" /\ last.ok /\ last.value = lastSet[last.key]
    /\ ops = MaxOps

\* C3: Set(k, v) returns true exactly when k is present; then the number of entries
\* is unchanged and k's value becomes v; when it returns false k is newly inserted
\* with value v.
C3_SetResult ==
    [][ (CallStep /\ last'.op = "Set")
        => LET k == last'.key
               v == last'.value
           IN  /\ last'.ok <=> k \in Present(l)
               /\ last'.ok => /\ Present(l') = Present(l)
                              /\ l'.len = l.len
                              /\ ValueOf(l', k) = v
               /\ ~last'.ok => /\ k \notin Present(l)
                               /\ k \in Present(l')
                               /\ ValueOf(l', k) = v ]_vars

\* a Set that updated a key of a full cache of MaxCap entries
C3_Witness ==
    /\ last.op = "Set" /\ last.ok
    /\ l.cap = MaxCap /\ Cardinality(Present(l)) = l.cap
    /\ ValueOf(l, last.key) = last.value

\* the call of last' touched its key
TouchStep == CallStep /\ (last'.op = "Set" \/ (last'.op = "Get" /\ last'.ok))

\* the call of last' is a Set that evicted for capacity
EvictStep == CallStep /\ last'.op = "Set" /\ last'.gone # {}

FrontIsTouched ==
    TouchStep => (Front(l') # Nil /\ l'.Value[Front(l')].key = last'.key)

\* the key touched most recently is not the one evicted
EvictsAnother ==
    (EvictStep /\ recency # <<>> /\ Head(recency) \in Present(l))
    => Head(recency) \notin last'.gone

\* C4 as stated, for every capacity >= 1: after a hitting Get(k) or a Set(k, v), k is
\* the front entry, and the next capacity eviction removes a key other than k.
C4_Original == [][ FrontIsTouched /\ EvictsAnother ]_vars

\* C4 as amended: k is the front entry for every capacity >= 1, and the next capacity
\* eviction removes a key other than k when the capacity is at least 2.
C4_TouchedIsMostRecent == [][ FrontIsTouched /\ (l.cap >= 2 => EvictsAnother) ]_vars

\* an eviction on a cache of MaxCap >= 2 entries that kept the key touched just before
C4_Witness ==
    /\ last.op = "Set" /\ last.gone # {}
    /\ l.cap = MaxCap /\ l.cap >= 2
    /\ Len(recency) >= 2 /\ recency[2] \in Present(l)
    /\ l.Value[Front(l)].key = last.key

\* ------------------------------------------- claims on concurrent callers
\* C5: in every reachable state, under any interleaving of Set, Get and Clear, the
\* number of keys in the index is at most the capacity.
C5_IndexWithinCapacity == Cardinality(Present(l)) <= l.cap

\* the positions at which a caller reads or writes the index, the ordering, ttl or cancel
InSet == {"set_update", "set_full", "set_evict", "set_delete", "set_push", "set_store"}
InGet == {"get_touch", "get_move"}
InClear == {"clear_items", "clear_queue"}

\* C6: every Set, Get and Clear holds the cache's lock for the whole of its access to
\* the shared state, so no two of them are inside that state at the same time.
C6_LockHeldDuringAccess ==
    /\ \A p \in Procs : pc[p] \in InSet \cup InGet \cup InClear => mu = p
    /\ \A p, q \in Procs :
           (p # q /\ pc[p] \in InSet \cup InGet \cup InClear)
           => pc[q] \notin InSet \cup InGet \cup InClear

\* C7: no Set, Get or Clear panics under any interleaving of Set, Get and Clear; when
\* Set finds the index size equal to the capacity, the ordering has a back node.
C7_NoPanic ==
    /\ \A p \in Procs : pc[p] # "panic"
    /\ \A p \in Procs : pc[p] = "set_evict" => Back(l) # Nil

TickStep == pcS = "select" /\ tickReady /\ ~tickReady'

\* C9: a sweeper tick never removes an entry whose last touch (Set or hitting Get)
\* took effect less than ttl before the tick.
C9_TickKeepsFreshEntries ==
    [][ TickStep => \A k \in Present(l) \ Present(l') : now - touchAt[k] >= TTL ]_vars

\* the step is made by the sweeper inside clearExpired
SweeperStep == pcS \in {"cf", "loop", "delete"} /\ pcS' # pcS

\* C10: once Clear has returned the sweeper removes no entry, whatever tick was
\* pending or in flight when Clear was called.
C10_NoSweepAfterClear ==
    [][ (cleared /\ SweeperStep) => (Present(l') = Present(l) /\ l'.len = l.len) ]_vars

\* --------------------------------------------------------- claims on Clear
\* the index and the ordering are empty
Empty(c) == Present(c) = {} /\ QueueLen(c) = 0 /\ Front(c) = Nil /\ Back(c) = Nil

\* C11: a Clear that runs alone leaves the index and the ordering empty whatever they
\* held and the capacity unchanged; every Get on an empty cache misses and leaves it
\* empty; and a Set on a cache holding fewer than cap keys evicts nothing, so that the
\* cache accepts cap distinct keys again.
C11_ClearEmpties ==
    [][ /\ (CallStep /\ last'.op = "Clear")
           => /\ Empty(l')
              /\ l'.cap = l.cap
              /\ \A k \in Key : ~Get(l', now', k).found
        /\ (CallStep /\ last'.op = "Get" /\ Empty(l))
           => (~last'.ok /\ last'.value = NoValue /\ Empty(l'))
        /\ (CallStep /\ last'.op = "Set" /\ Cardinality(Present(l)) < l.cap)
           => /\ last'.gone = {}
              /\ Present(l') = Present(l) \cup {last'.key}
              /\ QueueLen(l') = Cardinality(Present(l')) ]_vars

\* a cache that held a key was cleared and then took MaxCap distinct keys, evicting none
C11_Witness ==
    /\ cleared /\ last.op = "Set" /\ last.gone = {}
    /\ l.cap = MaxCap /\ Cardinality(Present(l)) = MaxCap /\ QueueLen(l) = MaxCap
    /\ Len(recency) = MaxCap + 1

\* ---------------------------------------------------------- claims on New
\* an option New rejects
Invalid(o) == o.ttl <= 0 \/ o.ticks <= 1

\* C12: New fails exactly when cap <= 0 (checked first) or one of its TTL options has
\* ttl <= 0 or ticks <= 1; otherwise it returns an empty cache of the given capacity,
\* with the ttl of the TTL option when one was given (ttl 0 when none was).
C12_ConstructValidates ==
    cons.pc = "done"
    => /\ cons.err # "none"
          <=> (cons.cap <= 0 \/ \E i \in 1..Len(cons.opts) : Invalid(cons.opts[i]))
       /\ cons.err = "cap" <=> cons.cap <= 0
       /\ cons.err = "none"
          => /\ Empty(l)
             /\ l.cap = cons.cap
             /\ l.ttl = IF cons.opts = <<>> THEN 0 ELSE cons.opts[Len(cons.opts)].ttl
             /\ l.cancel <=> cons.opts # <<>>

\* New returned a cache of capacity MaxCap built with MaxOpts valid TTL options
C12_Witness ==
    /\ cons.pc = "done" /\ cons.err = "none"
    /\ cons.cap = MaxCap /\ Len(cons.opts) = MaxOpts
    /\ l.ttl = MaxTtl /\ Empty(l) /\ l.cap = MaxCap

\* C18: whenever New returns a failure, for any capacity and any list of options, no
\* sweeper goroutine has been started or is left running.
C18_NoSweeperOnFailure ==
    (cons.pc = "done" /\ cons.err # "none") => cons.sweepers = <<>>

\* C17: for every accepted TTL configuration (ttl > 0, ticks >= 2) the sweeper is
\* started with the period ttl / ticks of integer division, this period is strictly
\* positive, and ticks periods fit in a window of length ttl (the cache's ttl).
C17_PositivePeriod ==
    \A g \in 1..Len(cons.sweepers) :
        /\ cons.sweepers[g].state # "panic"
        /\ cons.sweepers[g].state = "running"
           => /\ cons.sweepers[g].period > 0
              /\ cons.sweepers[g].ticks * cons.sweepers[g].period <= l.ttl

\* ------------------------------------------- claims on the index and the ordering
\* the elements of the queue from e on, front to back, at most n of them
RECURSIVE Chain(_, _, _)
Chain(c, e, n) ==
    IF n = 0 \/ e = Root \/ e = Nil THEN <<>>
    ELSE <<e>> \o Chain(c, c.next[e], n - 1)

\* the queue's elements, front to back
Queue(c) == Chain(c, c.next[Root], MaxOps)

\* the index and the ordering are in bijection
Bijection(c) ==
    LET q == Queue(c)
    IN  /\ Len(q) = QueueLen(c)
        /\ QueueLen(c) = Cardinality(Present(c))
        /\ \A i \in 1..Len(q) : /\ c.Value[q[i]] # NoItem
                                /\ c.items[c.Value[q[i]].key] = q[i]
        /\ \A k \in Present(c) : \E i \in 1..Len(q) : q[i] = c.items[k]
        /\ \A i, j \in 1..Len(q) : c.Value[q[i]].key = c.Value[q[j]].key => i = j

\* no Set, Get, Clear or sweeper tick is in the middle of executing
Quiescent ==
    /\ \A p \in Procs : pc[p] = "idle"
    /\ pcS \in {"select", "done"}
    /\ mu = 0

\* C13: in every state in which no Set, Get, Clear or tick is executing, including
\* states reached by concurrent callers, the index and the ordering are in bijection
\* and their sizes are equal.
C13_IndexOrderingBijection == Quiescent => Bijection(l)

\* C14: with TTL, under any interleaving of concurrent Set and Get calls, the entries
\* of the ordering read from back to front have non-decreasing expiresAt.
C14_ExpiryOrdered ==
    LET q == Queue(l)
    IN  \A i, j \in 1..Len(q) :
            i < j => l.Value[q[i]].expiresAt >= l.Value[q[j]].expiresAt

\* the length of the longest run of entries at the back of q (front to back) whose
\* expiresAt is not after t
RECURSIVE ExpiredRun(_, _, _)
ExpiredRun(c, q, t) ==
    IF q = <<>> \/ c.Value[q[Len(q)]].expiresAt > t THEN 0
    ELSE 1 + ExpiredRun(c, SubSeq(q, 1, Len(q) - 1), t)

\* C15: a sweeper tick removes exactly the longest run of entries at the back of the
\* ordering whose expiresAt is not in the future, from the index and the ordering, and
\* leaves every other entry, its value, its expiresAt and the order of the rest as
\* they were.
C15_TickRemovesExpiredRun ==
    [][ TickStep
        => LET q == Queue(l)
               n == ExpiredRun(l, q, now)
               kept == SubSeq(q, 1, Len(q) - n)
               gone == {l.Value[q[i]].key : i \in (Len(q) - n + 1)..Len(q)}
           IN  /\ Queue(l') = kept
               /\ QueueLen(l') = Len(kept)
               /\ Present(l') = Present(l) \ gone
               /\ \A i \in 1..Len(kept) : /\ l'.Value[kept[i]] = l.Value[kept[i]]
                                          /\ l'.items[l.Value[kept[i]].key] = kept[i]
               /\ Bijection(l') ]_vars

\* a tick on a cache of two entries removed the expired one at the back and stopped at
\* the entry in front of it, which had not expired
C15_Witness ==
    /\ last.op = "tick" /\ Cardinality(last.gone) = 1
    /\ QueueLen(l) = 1 /\ l.Value[Front(l)].expiresAt > now
    /\ l.cap = MaxCap

\* the step is a Get(k) that hits
GetHit(k) == ops' = ops + 1 /\ pc' = pc /\ k \in Present(l) /\ l' = Get(l, now, k).l

\* C16: with TTL, a Get(k) on an entry whose expiresAt has passed and that no tick has
\* removed yet returns (value, true), sets its expiresAt to now + ttl and moves it to
\* the front; the ticks that follow do not remove k before a further ttl has elapsed,
\* as long as k is not touched again.
C16_GetRevives ==
    [][ /\ \A k \in Key :
               (GetHit(k) /\ l.Value[l.items[k]].expiresAt <= now)
               => /\ Get(l, now, k).found
                  /\ Get(l, now, k).value = ValueOf(l, k)
                  /\ Present(l') = Present(l)
                  /\ l'.items[k] = l.items[k]
                  /\ l'.Value[l'.items[k]].expiresAt = now + l.ttl
                  /\ ValueOf(l', k) = ValueOf(l, k)
                  /\ Front(l') = l'.items[k]
        /\ (TickStep /\ revived.key # NoKey /\ now < revived.at + TTL)
           => revived.key \in Present(l') ]_vars

\* a tick later than the Get that revived an expired entry left the entry in the cache
C16_Witness ==
    /\ last.op = "tick"
    /\ revived.key \in Present(l)
    /\ revived.at < now
    /\ l.Value[l.items[revived.key]].expiresAt = revived.at + TTL

\* ------------------------------------------------ claims on the sweeper's end
\* the sweeper goroutine has returned, or a panic has ended the program
SweeperEnded == pcS = "done" \/ Panicked

\* C19: on a cache built with TTL, after Clear is called the sweeper eventually
\* terminates (the sweeper and the holders of the mutex being scheduled): a tick in
\* flight completes and the goroutine then returns.
C19_SweeperStops == cancelled ~> SweeperEnded

\* Clear was called, the sweeper has served the first tick and has returned
C19_Witness == cancelled /\ pcS = "done" /\ ~Panicked /\ cleared /\ ~tickReady /\ now = 1 + Period

\* ------------------------------------------------ claims on the two caches
\* the keys of the queue, most recently used first
KeyOrder(c) == [i \in 1..Len(Queue(c)) |-> c.Value[Queue(c)[i]].key]

\* same keys, same values, same recency order
SameContents(c, d) ==
    /\ Present(c) = Present(d)
    /\ \A k \in Present(c) : ValueOf(c, k) = ValueOf(d, k)
    /\ QueueLen(c) = QueueLen(d)
    /\ KeyOrder(c) = KeyOrder(d)

\* C20: for every capacity >= 1 and every sequential sequence of Set, Get and Clear,
\* the cache of lru.go built without a TTL option and the cache of lruCache.go return
\* the same result for every call and hold the same keys, values and recency order
\* after every call.
C20_SameAsPlain == last = lastP /\ SameContents(l, lp)

\* a Set on the two full caches evicted the same key from both, after a touch of the
\* first key had reordered them
C20_Witness ==
    /\ last.op = "Set" /\ last.gone # {} /\ lastP.gone = last.gone
    /\ lp.cap = 2 /\ QueueLen(lp) = 2
    /\ lp.items[KeyOrder(lp)[2]] = 1
    /\ l.items[KeyOrder(l)[2]] = 1

====
